---- MODULE Spec2Model ----
(***************************************************************************)
(* The in-memory post store of rakia-tech-test                             *)
(* (internal/infrastructure/repositories/memory_post_repository.go) with   *)
(* the Post entity it stores (internal/domain/entities/post.go), and the   *)
(* service and the HTTP handlers on top of it                              *)
(* (internal/application/services, internal/interfaces/rest).              *)
(*                                                                         *)
(* Posts are heap objects reached through pointers to entities.Post: the   *)
(* store's map holds addresses, callers hold addresses, and a copy is an   *)
(* allocation.  Every store method is a sequence of steps of one goroutine *)
(* between taking and releasing the RWMutex.                               *)
(***************************************************************************)
EXTENDS Integers, Sequences, FiniteSets, TLC

\* ------------------------------------------------------------------ bounds
\* Goroutines calling the store.
NumProcs == 3
\* Explicit IDs a caller passes are 0..MaxID and MaxInt.
MaxID == 1
\* CreatePost is called while the counter is MinInt or in 0..MaxNext.
MaxNext == 2
\* Distinct IDs removed by Delete in one behaviour.
MaxDeleted == 1
\* Posts in one LoadData batch.
MaxBatch == 2
\* Addresses kept in reserve for allocations whose usual address is in use.
MaxSpare == 4

\* ------------------------------------------------------------- Go's int
\* Go's int is 32 or 64 bits wide.  TLC's integers are 32 bits wide, so the
\* model takes the 32-bit int; + 1 wraps from MaxInt to MinInt as in Go.
MaxInt == 2147483647
MinInt == (-MaxInt) - 1
Inc(x) == IF x = MaxInt THEN MinInt ELSE x + 1

\* ------------------------------------------------------------- strings
\* A Go string is a sequence of bytes holding UTF-8 text: a sequence of
\* characters, each encoded in one byte (ASCII) or more.  Wide stands for a
\* character of two bytes, such as U+0436.
Wide == "U+0436"
Bytes(c) == IF c = Wide THEN 2 ELSE 1

\* len(s): the number of bytes of s.
ByteLen(s) ==
  Cardinality({i \in 1..Len(s) : Bytes(s[i]) = 1})
    + 2 * Cardinality({i \in 1..Len(s) : Bytes(s[i]) = 2})

\* n times the character c: strings.Repeat.
Repeat(c, n) == [i \in 1..n |-> c]

Space == {" ", "\t", "\n", "\r"}

\* s without its leading white space: from the first character that is none.
TrimLeft(s) ==
  LET kept == {i \in 1..Len(s) : s[i] \notin Space}
  IN  IF kept = {} THEN << >>
      ELSE SubSeq(s, CHOOSE i \in kept : \A j \in 1..(i - 1) : s[j] \in Space, Len(s))

\* s without its trailing white space: up to the last character that is none.
TrimRight(s) ==
  LET kept == {i \in 1..Len(s) : s[i] \notin Space}
  IN  IF kept = {} THEN << >>
      ELSE SubSeq(s, 1, CHOOSE i \in kept : \A j \in (i + 1)..Len(s) : s[j] \in Space)

TrimSpace(s) == TrimRight(TrimLeft(s))

\* ------------------------------------------------------------- entity
MaxTitleLen == 255

Nil == "nil"
ErrPostNotFound == "post not found"
ErrPostExists == "post already exists"
ErrTitleRequired == "title is required"
ErrContentRequired == "content is required"
ErrAuthorRequired == "author is required"
ErrTitleTooLong == "title must be less than 255 characters"

Post(id, title, content, author) ==
  [ID |-> id, Title |-> title, Content |-> content, Author |-> author]

\* The bug of a Validate that checks the length first.
Validate_LengthFirst(p) ==
  IF ByteLen(p.Title) > MaxTitleLen THEN ErrTitleTooLong
  ELSE IF TrimSpace(p.Title) = << >> THEN ErrTitleRequired
  ELSE IF TrimSpace(p.Content) = << >> THEN ErrContentRequired
  ELSE IF TrimSpace(p.Author) = << >> THEN ErrAuthorRequired
  ELSE Nil

Validate(p) ==
  IF TrimSpace(p.Title) = << >> THEN ErrTitleRequired
  ELSE IF TrimSpace(p.Content) = << >> THEN ErrContentRequired
  ELSE IF TrimSpace(p.Author) = << >> THEN ErrAuthorRequired
  ELSE IF ByteLen(p.Title) > MaxTitleLen THEN ErrTitleTooLong
  ELSE Nil

\* The bug of a constructor that fills the fields in another order.
NewPost_Swapped(id, title, content, author) ==
  LET post == Post(id, title, author, content)
  IN  [post |-> post, err |-> Validate(post)]

\* The bug of a constructor that does not validate.
NewPost_Unchecked(id, title, content, author) ==
  [post |-> Post(id, title, content, author), err |-> Nil]

\* NewPost returns (post, nil) or (nil, err); post is the value of the new object.
NewPost(id, title, content, author) ==
  LET post == Post(id, title, content, author)
      err == Validate(post)
  IN  [post |-> post, err |-> err]

\* The bug of an Update that assigns before it validates.
Post_Update_Eager(p, title, content, author) ==
  LET temp == Post(p.ID, title, content, author)
  IN  [post |-> temp, err |-> Validate(temp)]

\* The bug of an Update that does not validate.
Post_Update_Lenient(p, title, content, author) ==
  [post |-> Post(p.ID, title, content, author), err |-> Nil]

\* The bug of an Update that assigns the title only.
Post_Update_TitleOnly(p, title, content, author) ==
  LET temp == Post(p.ID, title, content, author)
      err == Validate(temp)
  IN  IF err # Nil THEN [post |-> p, err |-> err]
      ELSE [post |-> [p EXCEPT !.Title = title], err |-> Nil]

\* Post.Update: the post after the call and the error returned.
Post_Update(p, title, content, author) ==
  LET temp == Post(p.ID, title, content, author)
      err == Validate(temp)
  IN  IF err # Nil THEN [post |-> p, err |-> err]
      ELSE [post |-> [p EXCEPT !.Title = title, !.Content = content, !.Author = author],
            err |-> Nil]

\* ------------------------------------------------------------- inputs
Procs == 1..NumProcs
IDs == (0..MaxID) \cup {MaxInt}

\* (title, content, author) triples callers pass: two valid ones that differ
\* in every field, one with a blank title, one whose content is only spaces.
TripleA == << <<"a">>, <<"c">>, <<"u">> >>
TripleB == << <<"b">>, <<"d">>, <<"v">> >>
TripleNoTitle == << << >>, <<"c">>, <<"u">> >>
TripleBlankContent == << <<"a">>, <<" ">>, <<"u">> >>
Triples == {TripleA, TripleB, TripleNoTitle, TripleBlankContent}

\* The fields given to the entity: titles that are empty, blank, short, of
\* MaxTitleLen and of MaxTitleLen + 1 one-byte characters, blank and over-long,
\* and of two-byte characters that take MaxTitleLen + 1 bytes.
Titles ==
  {<< >>, <<"\t", " ">>, <<"a">>, Repeat("a", MaxTitleLen), Repeat("b", MaxTitleLen + 1),
   Repeat(" ", MaxTitleLen + 1), Repeat(Wide, (MaxTitleLen + 1) \div 2)}
Contents == {<< >>, <<" ">>, <<"c">>}
Authors == {<< >>, <<"\n">>, <<"u">>}

\* Posts a caller builds itself (a literal or NewPost) and passes by pointer.
CallerPosts == {Post(id, t[1], t[2], t[3]) : id \in IDs, t \in {TripleA, TripleB}}

\* What a caller writes into a field of a post it holds.
Modified == <<"M">>
Fields == {"ID", "Title", "Content", "Author"}
MutateField(post, f) ==
  IF f = "ID" THEN [post EXCEPT !.ID = IF @ = 0 THEN 1 ELSE 0]
  ELSE [post EXCEPT ![f] = IF @ = Modified THEN << >> ELSE Modified]

\* ------------------------------------------------------------- heap
Range(f) == {f[x] : x \in DOMAIN f}

\* Addresses.  An address is observable only through equality, so a new object
\* takes the address named after the variable that will point to it, unless
\* something still points there; then it takes a spare one.
StoreSlot(id) == <<"r", id, 0>>
CallerSlot(p, i) == <<"g", p, i>>
LocalSlot(p) == <<"l", p, 0>>
SpareSlots == {<<"x", n, 0>> : n \in 1..MaxSpare}

Fresh(pref, live) ==
  IF pref \notin live THEN pref ELSE CHOOSE a \in SpareSlots : a \notin live

Put(h, a, v) == [x \in DOMAIN h \cup {a} |-> IF x = a THEN v ELSE h[x]]
MapPut(m, k, a) == [x \in DOMAIN m \cup {k} |-> IF x = k THEN a ELSE m[x]]
MapDel(m, k) == [x \in DOMAIN m \ {k} |-> m[x]]

\* Every address the map or a caller points to.
Roots(ps, hd) == Range(ps) \cup UNION {Range(hd[q]) : q \in Procs}

\* Go's garbage collector: an object nothing points to is gone.
Collect(h, ps, hd) == [a \in DOMAIN h \cap Roots(ps, hd) |-> h[a]]

\* The bug of keeping the caller's pointer: r.posts[id] = post.
CopyIn_Alias(src, pref, live) == src

\* postCopy := *post; ... &postCopy, where the copy goes into the map.
CopyIn(src, pref, live) == Fresh(pref, live)

\* The bug of handing out the stored pointer: return post.
CopyOut_Alias(src, pref, live) == src

\* postCopy := *post; return &postCopy, where the copy goes to the caller.
CopyOut(src, pref, live) == Fresh(pref, live)

\* ------------------------------------------------------------- state
VARIABLES
  posts,      \* r.posts: ID -> address of the stored post
  nextID,     \* r.nextID
  mutex,      \* r.mutex: the writer holding it (0: none) and the readers
  heap,       \* address -> Post, the live objects
  pc,         \* per goroutine: "idle" or its position inside a store method
  local,      \* per goroutine: the local variable id of CreatePost
  held,       \* per goroutine: the posts it points to (passed in or returned)
  res,        \* per goroutine: what its last call was given and returned:
              \* op, err, the id given or generated, the bool or ok returned,
              \* args (the fields or the posts given, as values) and ret (the
              \* posts returned, as values at the return)
  req,        \* per goroutine: the HTTP request it serves and where it is in
              \* the handler and the service
  generated,  \* history: the IDs successful CreatePost calls returned
  deleted     \* history: every ID a successful Delete removed

vars == <<posts, nextID, mutex, heap, pc, local, held, res, req, generated, deleted>>

NoRes ==
  [op |-> "none", err |-> Nil, id |-> 0, found |-> FALSE, args |-> << >>, ret |-> << >>]
Result(op, err, id, found, args, ret) ==
  [op |-> op, err |-> err, id |-> id, found |-> found, args |-> args, ret |-> ret]

\* No request: the goroutine does not serve one.
NoBody == [json |-> FALSE, t |-> << << >>, << >>, << >> >>]
NoReq ==
  [at |-> "idle", method |-> "none", idStr |-> << >>, body |-> NoBody, id |-> 0,
   status |-> 0, err |-> Nil, post |-> << >>, was |-> << >>]

\* NewMemoryPostRepository
Init ==
  /\ posts = [k \in {} |-> StoreSlot(0)]
  /\ nextID = 1
  /\ mutex = [w |-> 0, r |-> {}]
  /\ heap = [a \in {} |-> Post(0, << >>, << >>, << >>)]
  /\ pc = [p \in Procs |-> "idle"]
  /\ local = [p \in Procs |-> 0]
  /\ held = [p \in Procs |-> << >>]
  /\ res = [p \in Procs |-> NoRes]
  /\ req = [p \in Procs |-> NoReq]
  /\ generated = {}
  /\ deleted = {}

\* The bug of a method that does not take the mutex.
CanLock_Free(m) == TRUE

\* The bug of an RLock that does not wait for the writer.
CanRLock_Free(m) == TRUE

\* The bug of a return path without the unlock.
Unlock_Forgotten(m, p) == m

\* sync.RWMutex
CanLock(m) == m.w = 0 /\ m.r = {}
CanRLock(m) == m.w = 0
Lock(m, p) == [m EXCEPT !.w = p]
Unlock(m, p) == [m EXCEPT !.w = 0]
RLock(m, p) == [m EXCEPT !.r = @ \cup {p}]
RUnlock(m, p) == [m EXCEPT !.r = @ \ {p}]

\* The store as values: what is stored under every key.
StoreValue == [k \in DOMAIN posts |-> heap[posts[k]]]
\* Every ID that has been a key: delete(r.posts, id) in Delete is the only
\* statement that removes a key, and Delete records what it removes.
EverKeys == DOMAIN posts \cup deleted

\* A goroutine at from takes the mutex (m is the mutex taken) and is inside
\* the method, at position; it has let go of the posts and the result of its
\* last call.
EnterFrom(p, from, position, m) ==
  LET hd == [held EXCEPT ![p] = << >>]
  IN  /\ pc[p] = from
      /\ pc' = [pc EXCEPT ![p] = position]
      /\ held' = hd
      /\ heap' = Collect(heap, posts, hd)
      /\ res' = [res EXCEPT ![p] = NoRes]
      /\ mutex' = m
      /\ UNCHANGED <<posts, nextID, local>>

\* The call and the Lock or RLock of its first statement, in one step.
Enter(p, position, m) == EnterFrom(p, "idle", position, m)

\* The posts a caller passes by pointer are objects of its own.
RECURSIVE Pass(_, _, _, _, _)
Pass(p, passed, i, h, as) ==
  IF i > Len(passed) THEN [heap |-> h, addrs |-> as]
  ELSE LET x == Fresh(CallerSlot(p, i), Roots(posts, held) \cup Range(as))
       IN  Pass(p, passed, i + 1, Put(h, x, passed[i]), Append(as, x))

\* A goroutine leaves a method: the deferred unlock runs (m is the mutex
\* released) and the call returns r.  Of the posts of the call (as: passed in
\* or returned) the caller goes on pointing to one.
Leave(p, ps, h, as, r, m) ==
  /\ pc' = [pc EXCEPT ![p] = "idle"]
  /\ local' = [local EXCEPT ![p] = 0]
  /\ posts' = ps
  /\ \E keep \in (IF as = << >> THEN {<< >>} ELSE {<<a>> : a \in Range(as)}) :
       /\ held' = [held EXCEPT ![p] = keep]
       /\ heap' = Collect(h, ps, [held EXCEPT ![p] = keep])
  /\ res' = [res EXCEPT ![p] = r]
  /\ mutex' = m

\* ------------------------------------------------------------- Create
\* The bug of a Create without the check, which overwrites.
CreateExists_Never(ps, post) == FALSE

\* if _, exists := r.posts[post.ID]; exists
CreateExists(ps, post) == post.ID \in DOMAIN ps

Create_Lock(p) == CanLock(mutex) /\ Enter(p, "Create", Lock(mutex, p))

Create(p) ==
  /\ pc[p] = "Create"
  /\ \E post \in CallerPosts :
       LET in == Pass(p, <<post>>, 1, heap, << >>)
           src == in.addrs[1]
       IN  IF CreateExists(posts, post)
           THEN /\ Leave(p, posts, in.heap, in.addrs,
                         Result("Create", ErrPostExists, post.ID, FALSE, <<post>>, << >>),
                         Unlock(mutex, p))
                /\ UNCHANGED nextID
           ELSE LET a == CopyIn(src, StoreSlot(post.ID), Roots(posts, held) \cup {src})
                IN  /\ Leave(p, MapPut(posts, post.ID, a), Put(in.heap, a, in.heap[src]),
                             in.addrs, Result("Create", Nil, post.ID, FALSE, <<post>>, << >>),
                             Unlock(mutex, p))
                    /\ nextID' = IF post.ID >= nextID THEN Inc(post.ID) ELSE nextID

\* ------------------------------------------------------------- CreatePost
CreatePost_Lock(p) == CanLock(mutex) /\ Enter(p, "CreatePost47", Lock(mutex, p))

\* id := r.nextID
CreatePost47(p) ==
  /\ pc[p] = "CreatePost47"
  /\ local' = [local EXCEPT ![p] = nextID]
  /\ pc' = [pc EXCEPT ![p] = "CreatePost48"]
  /\ UNCHANGED <<posts, nextID, mutex, heap, held, res>>

\* r.nextID++
CreatePost48(p) ==
  /\ pc[p] = "CreatePost48"
  /\ nextID' = Inc(nextID)
  /\ pc' = [pc EXCEPT ![p] = "CreatePost50"]
  /\ UNCHANGED <<posts, mutex, heap, local, held, res>>

\* NewPost, the two copies and the return
CreatePost50(p) ==
  /\ pc[p] = "CreatePost50"
  /\ \E t \in Triples :
       LET new == NewPost(local[p], t[1], t[2], t[3])
           id == new.post.ID
       IN  IF new.err # Nil
           THEN Leave(p, posts, heap, << >>,
                      Result("CreatePost", new.err, 0, FALSE, t, << >>), Unlock(mutex, p))
           ELSE LET post == Fresh(LocalSlot(p), Roots(posts, held))
                    h1 == Put(heap, post, new.post)
                    a == CopyIn(post, StoreSlot(id), Roots(MapDel(posts, id), held) \cup {post})
                    h2 == Put(h1, a, h1[post])
                    ps == MapPut(posts, id, a)
                    b == CopyOut(post, CallerSlot(p, 1), Roots(ps, held) \cup {post})
                    h3 == Put(h2, b, h2[post])
                IN  Leave(p, ps, h3, <<b>>,
                          Result("CreatePost", Nil, h3[b].ID, FALSE, t, <<h3[b]>>),
                          Unlock(mutex, p))
  /\ UNCHANGED nextID

\* ------------------------------------------------------------- GetByID
GetByID_RLock(p) == CanRLock(mutex) /\ Enter(p, "GetByID", RLock(mutex, p))

GetByID(p) ==
  /\ pc[p] = "GetByID"
  /\ \E id \in IDs \cup DOMAIN posts :
       IF id \notin DOMAIN posts
       THEN Leave(p, posts, heap, << >>,
                  Result("GetByID", ErrPostNotFound, id, FALSE, << >>, << >>),
                  RUnlock(mutex, p))
       ELSE LET b == CopyOut(posts[id], CallerSlot(p, 1), Roots(posts, held))
                h == Put(heap, b, heap[posts[id]])
            IN  Leave(p, posts, h, <<b>>,
                      Result("GetByID", Nil, id, TRUE, << >>, <<h[b]>>), RUnlock(mutex, p))
  /\ UNCHANGED nextID

\* ------------------------------------------------------------- GetAll
\* The bug of a GetAll without the sort: the posts in an order of the map
\* iteration, here the descending one.
RECURSIVE SortedKeys_MapOrder(_)
SortedKeys_MapOrder(S) ==
  IF S = {} THEN << >>
  ELSE LET m == CHOOSE x \in S : \A y \in S : x >= y
       IN  <<m>> \o SortedKeys_MapOrder(S \ {m})

\* sort.Slice by ID: the keys in ascending order, whatever order the map
\* iteration produced them in.
RECURSIVE SortedKeys(_)
SortedKeys(S) ==
  IF S = {} THEN << >>
  ELSE LET m == CHOOSE x \in S : \A y \in S : x <= y
       IN  <<m>> \o SortedKeys(S \ {m})

RECURSIVE Copies(_, _, _, _, _)
Copies(p, keys, i, h, as) ==
  IF i > Len(keys) THEN [heap |-> h, addrs |-> as]
  ELSE LET b == CopyOut(posts[keys[i]], CallerSlot(p, i), Roots(posts, held) \cup Range(as))
       IN  Copies(p, keys, i + 1, Put(h, b, h[posts[keys[i]]]), Append(as, b))

GetAll_RLock(p) == CanRLock(mutex) /\ Enter(p, "GetAll", RLock(mutex, p))

GetAll(p) ==
  /\ pc[p] = "GetAll"
  /\ LET keys == SortedKeys(DOMAIN posts)
         out == Copies(p, keys, 1, heap, << >>)
     IN  Leave(p, posts, out.heap, out.addrs,
               Result("GetAll", Nil, Len(out.addrs), TRUE, << >>,
                      [i \in 1..Len(out.addrs) |-> out.heap[out.addrs[i]]]),
               RUnlock(mutex, p))
  /\ UNCHANGED nextID

\* ------------------------------------------------------------- Update
\* The bug of an Update without the check, which inserts.
UpdateExists_Always(ps, id) == TRUE

\* if _, exists := r.posts[id]; !exists
UpdateExists(ps, id) == id \in DOMAIN ps

\* The bug of an Update that stores the ID of the post it is given.
UpdateCopy_KeepID(post, id) == post

\* postCopy := *post; postCopy.ID = id
UpdateCopy(post, id) == [post EXCEPT !.ID = id]

Update_Lock(p) == CanLock(mutex) /\ Enter(p, "Update", Lock(mutex, p))

\* Update(id, post) inside the lock, for the id and the post of the call
UpdateOf(p, id, post) ==
  /\ pc[p] = "Update"
  /\ LET in == Pass(p, <<post>>, 1, heap, << >>)
         src == in.addrs[1]
     IN  IF ~UpdateExists(posts, id)
         THEN Leave(p, posts, in.heap, in.addrs,
                    Result("Update", ErrPostNotFound, id, FALSE, <<post>>, << >>),
                    Unlock(mutex, p))
         ELSE LET a == CopyIn(src, StoreSlot(id), Roots(MapDel(posts, id), held) \cup {src})
                  h == Put(in.heap, a, UpdateCopy(in.heap[src], id))
              IN  Leave(p, MapPut(posts, id, a), h, in.addrs,
                        Result("Update", Nil, id, TRUE, <<post>>, << >>), Unlock(mutex, p))
  /\ UNCHANGED nextID

Update(p) == \E id \in IDs \cup DOMAIN posts, post \in CallerPosts : UpdateOf(p, id, post)

\* ------------------------------------------------------------- Delete
Delete_Lock(p) == CanLock(mutex) /\ Enter(p, "Delete", Lock(mutex, p))

Delete(p) ==
  /\ pc[p] = "Delete"
  /\ \E id \in IDs \cup DOMAIN posts :
       IF id \notin DOMAIN posts
       THEN Leave(p, posts, heap, << >>,
                  Result("Delete", ErrPostNotFound, id, FALSE, << >>, << >>),
                  Unlock(mutex, p))
       ELSE Leave(p, MapDel(posts, id), heap, << >>,
                  Result("Delete", Nil, id, TRUE, << >>, << >>), Unlock(mutex, p))
  /\ UNCHANGED nextID

\* ------------------------------------------------------------- Exists
\* An answer that does not look at the map.
ExistsResult_Always(ps, id) == TRUE

\* _, exists := r.posts[id]; return exists
ExistsResult(ps, id) == id \in DOMAIN ps

Exists_RLock(p) == CanRLock(mutex) /\ Enter(p, "Exists", RLock(mutex, p))

Exists(p) ==
  /\ pc[p] = "Exists"
  /\ \E id \in IDs \cup DOMAIN posts :
       Leave(p, posts, heap, << >>,
             Result("Exists", Nil, id, ExistsResult(posts, id), << >>, << >>),
             RUnlock(mutex, p))
  /\ UNCHANGED nextID

\* ------------------------------------------------------------- LoadData
\* The batches a caller loads: up to MaxBatch posts, IDs repeated or not, in any
\* order.
RECURSIVE SeqsUpTo(_, _)
SeqsUpTo(S, n) ==
  IF n = 0 THEN {<< >>}
  ELSE LET shorter == SeqsUpTo(S, n - 1)
       IN  shorter \cup {Append(q, x) : q \in shorter, x \in S}

\* The posts of a batch alternate between the two valid triples, so that two
\* posts of a batch with one ID differ.
BatchPost(id, i) ==
  LET t == IF i % 2 = 1 THEN TripleA ELSE TripleB
  IN  Post(id, t[1], t[2], t[3])

Batches == {[i \in 1..Len(q) |-> BatchPost(q[i], i)] : q \in SeqsUpTo(IDs, MaxBatch)}

\* A loop that rejects instead of overwriting: a post whose ID is already a key
\* is skipped.
RECURSIVE LoadLoop_KeepFirst(_, _, _)
LoadLoop_KeepFirst(st, srcs, as) ==
  IF srcs = << >> THEN st
  ELSE LET src == Head(srcs)
           post == st.heap[src]
           a == CopyIn(src, StoreSlot(post.ID),
                       Roots(MapDel(st.posts, post.ID), held) \cup Range(as))
       IN  IF post.ID \in DOMAIN st.posts
           THEN LoadLoop_KeepFirst(st, Tail(srcs), as)
           ELSE LoadLoop_KeepFirst(
                    [posts |-> MapPut(st.posts, post.ID, a),
                     heap |-> Put(st.heap, a, post),
                     nextID |-> IF post.ID >= st.nextID THEN Inc(post.ID) ELSE st.nextID],
                    Tail(srcs), as)

\* for _, post := range posts { ... }
RECURSIVE LoadLoop(_, _, _)
LoadLoop(st, srcs, as) ==
  IF srcs = << >> THEN st
  ELSE LET src == Head(srcs)
           post == st.heap[src]
           a == CopyIn(src, StoreSlot(post.ID),
                       Roots(MapDel(st.posts, post.ID), held) \cup Range(as))
       IN  LoadLoop([posts |-> MapPut(st.posts, post.ID, a),
                     heap |-> Put(st.heap, a, post),
                     nextID |-> IF post.ID >= st.nextID THEN Inc(post.ID) ELSE st.nextID],
                    Tail(srcs), as)

LoadData_Lock(p) == CanLock(mutex) /\ Enter(p, "LoadData", Lock(mutex, p))

\* LoadData(posts) inside the lock, for the batch of the call
LoadDataOf(p, batch) ==
  /\ pc[p] = "LoadData"
  /\ LET in == Pass(p, batch, 1, heap, << >>)
         st == LoadLoop([posts |-> posts, heap |-> in.heap, nextID |-> nextID],
                        in.addrs, in.addrs)
     IN  /\ Leave(p, st.posts, st.heap, in.addrs,
                  Result("LoadData", Nil, Len(batch), TRUE, batch, << >>),
                  Unlock(mutex, p))
         /\ nextID' = st.nextID

LoadData(p) == \E batch \in Batches : LoadDataOf(p, batch)

\* ------------------------------------------------------------- callers
\* Between calls a goroutine writes one field of the post it points to (one it
\* passed in or one it got back) and lets go of it.
Mutate(p) ==
  /\ pc[p] = "idle"
  /\ held[p] # << >>
  /\ \E f \in Fields :
       LET h == [heap EXCEPT ![held[p][1]] = MutateField(@, f)]
           hd == [held EXCEPT ![p] = << >>]
       IN  /\ held' = hd
           /\ heap' = Collect(h, posts, hd)
  /\ UNCHANGED <<posts, nextID, mutex, pc, local, res>>

\* ------------------------------------------------------------- entity calls
\* A goroutine uses the entity by itself: it builds a post with NewPost,
\* validates a post it wrote as a literal, and updates the post it points to.
CallNewPost(p) ==
  /\ pc[p] = "idle"
  /\ \E id \in IDs, title \in Titles, content \in Contents, author \in Authors :
       LET new == NewPost(id, title, content, author)
           args == <<title, content, author>>
           none == [held EXCEPT ![p] = << >>]
           a == Fresh(LocalSlot(p), Roots(posts, none))
       IN  IF new.err # Nil
           THEN /\ held' = none
                /\ heap' = Collect(heap, posts, none)
                /\ res' = [res EXCEPT ![p] = Result("NewPost", new.err, id, FALSE, args, << >>)]
           ELSE /\ held' = [held EXCEPT ![p] = <<a>>]
                /\ heap' = Collect(Put(heap, a, new.post), posts, [held EXCEPT ![p] = <<a>>])
                /\ res' = [res EXCEPT ![p] = Result("NewPost", Nil, id, TRUE, args, <<new.post>>)]
  /\ UNCHANGED <<posts, nextID, mutex, pc, local>>

CallValidate(p) ==
  /\ pc[p] = "idle"
  /\ \E id \in {MaxID}, title \in Titles, content \in Contents, author \in Authors :
       res' = [res EXCEPT ![p] = Result("Validate", Validate(Post(id, title, content, author)),
                                        id, FALSE, <<title, content, author>>, << >>)]
  /\ UNCHANGED <<posts, nextID, mutex, heap, pc, local, held>>

CallUpdate(p) ==
  /\ pc[p] = "idle"
  /\ held[p] # << >>
  /\ \E title \in Titles, content \in Contents, author \in Authors :
       LET a == held[p][1]
           upd == Post_Update(heap[a], title, content, author)
       IN  /\ heap' = [heap EXCEPT ![a] = upd.post]
           /\ res' = [res EXCEPT ![p] = Result("Post.Update", upd.err, heap[a].ID, upd.err = Nil,
                                                <<title, content, author>>, << >>)]
  /\ UNCHANGED <<posts, nextID, mutex, pc, local, held>>

\* ------------------------------------------------------------- service and handlers
\* net/http status codes
StatusOK == 200
StatusCreated == 201
StatusNoContent == 204
StatusBadRequest == 400
StatusNotFound == 404
StatusInternalServerError == 500

\* strconv.Atoi: an optional sign and then decimal digits, at least one, of a
\* value that fits an int.
ErrSyntax == "invalid syntax"
ErrRange == "value out of range"
Digits == <<"0", "1", "2", "3", "4", "5", "6", "7", "8", "9">>
IsDigit(c) == \E i \in 1..Len(Digits) : Digits[i] = c
DigitValue(c) == (CHOOSE i \in 1..Len(Digits) : Digits[i] = c) - 1

\* The value of a string of digits, or -1 if it does not fit.
RECURSIVE ParseDigits(_, _)
ParseDigits(ds, acc) ==
  IF ds = << >> THEN acc
  ELSE LET v == DigitValue(Head(ds))
       IN  IF acc > (MaxInt - v) \div 10 THEN -1
           ELSE ParseDigits(Tail(ds), acc * 10 + v)

Atoi(s) ==
  LET signed == s # << >> /\ Head(s) \in {"+", "-"}
      ds == IF signed THEN Tail(s) ELSE s
  IN  IF ds = << >> \/ \E i \in 1..Len(ds) : ~IsDigit(ds[i])
      THEN [n |-> 0, err |-> ErrSyntax]
      ELSE LET v == ParseDigits(ds, 0)
           IN  IF v < 0 THEN [n |-> 0, err |-> ErrRange]
               ELSE [n |-> IF Head(s) = "-" THEN 0 - v ELSE v, err |-> Nil]

\* c.ShouldBindJSON into CreatePostRequest or UpdatePostRequest: the body is
\* JSON, the three fields are there and not empty (binding:"required"), and the
\* title has at most 255 characters (binding:"max=255").
ErrInvalidJSON == "invalid character"
ErrRequiredTag == "failed on the 'required' tag"
ErrMaxTag == "failed on the 'max' tag"
ShouldBindJSON(body) ==
  IF ~body.json THEN ErrInvalidJSON
  ELSE IF body.t[1] = << >> THEN ErrRequiredTag
  ELSE IF Len(body.t[1]) > MaxTitleLen THEN ErrMaxTag
  ELSE IF body.t[2] = << >> \/ body.t[3] = << >> THEN ErrRequiredTag
  ELSE Nil

\* The bug of a service that wraps the errors of the store.
ServiceErr_Wrapped(err) == IF err = Nil THEN Nil ELSE "service: failed"

\* The bug of a service that reports a missing post as an existing one.
ServiceErr_Confused(err) == IF err = ErrPostNotFound THEN ErrPostExists ELSE err

\* return nil, err: the service hands on the error it got.
ServiceErr(err) == err

\* The requests clients send.  The ids in the path are decimal strings of IDs
\* the callers of the store use, and strings that are no integers.
Methods == {"POST", "GET", "GETALL", "PUT", "DELETE"}
IDStrings == {<<"0">>, <<"1">>, <<"+", "1">>, <<"a">>, <<"1", "a">>, <<"-">>}
JSON(t) == [json |-> TRUE, t |-> t]
Bodies ==
  {JSON(t) : t \in Triples}
    \cup {JSON(<<Repeat("b", MaxTitleLen + 1), <<"c">>, <<"u">> >>), NoBody}

\* The router: the handler of the request, at its first statement.
Entry(method) ==
  CASE method = "POST" -> "h.CreatePost30"
    [] method = "GET" -> "h.GetPost55"
    [] method = "GETALL" -> "s.GetAllPosts51"
    [] method = "PUT" -> "h.UpdatePost113"
    [] method = "DELETE" -> "h.DeletePost165"

\* The goroutine has answered the request: c.JSON(status, ...) and return.
Respond(p, status, err, post) ==
  req' = [req EXCEPT ![p].at = "idle", ![p].status = status, ![p].err = err, ![p].post = post]

Goto(p, at) == req' = [req EXCEPT ![p].at = at]

StoreUnchanged == UNCHANGED <<posts, nextID, mutex, heap, pc, local, held, res>>

\* A request arrives and is routed.  was is the store at that moment.
Serve(p) ==
  /\ req[p].at = "idle"
  /\ pc[p] = "idle"
  /\ \E method \in Methods, idStr \in IDStrings, body \in Bodies :
       /\ method \in {"POST", "GETALL"} => idStr = <<"0">>
       /\ method \in {"GET", "GETALL", "DELETE"} => body = NoBody
       /\ req' = [req EXCEPT ![p] = [at |-> Entry(method), method |-> method, idStr |-> idStr,
                                     body |-> body, id |-> 0, status |-> 0, err |-> Nil,
                                     post |-> << >>, was |-> StoreValue]]
  /\ StoreUnchanged

\* PostHandler.CreatePost up to the call of the service
HandlerCreatePost(p) ==
  /\ req[p].at = "h.CreatePost30"
  /\ LET err == ShouldBindJSON(req[p].body)
     IN  IF err # Nil THEN Respond(p, StatusBadRequest, err, << >>)
         ELSE Goto(p, "s.CreatePost28")
  /\ StoreUnchanged

\* PostService.CreatePost calls the store
ServiceCreatePost(p) ==
  /\ req[p].at = "s.CreatePost28"
  /\ CreatePost_Lock(p)
  /\ Goto(p, "s.CreatePost29")

\* the store's CreatePost with the fields of the request
RepoCreatePost(p) ==
  /\ req[p].at = "s.CreatePost29"
  /\ CreatePost50(p)
  /\ res'[p].args = req[p].body.t
  /\ UNCHANGED req

\* PostService.CreatePost returns and PostHandler.CreatePost answers
HandlerCreatePostRespond(p) ==
  /\ req[p].at = "s.CreatePost29"
  /\ pc[p] = "idle"
  /\ LET err == ServiceErr(res[p].err)
     IN  IF err # Nil THEN Respond(p, StatusBadRequest, err, << >>)
         ELSE Respond(p, StatusCreated, Nil, res[p].ret)
  /\ StoreUnchanged

\* PostHandler.GetPost up to the call of the service
HandlerGetPost(p) ==
  /\ req[p].at = "h.GetPost55"
  /\ LET id == Atoi(req[p].idStr)
     IN  IF id.err # Nil THEN Respond(p, StatusBadRequest, id.err, << >>)
         ELSE req' = [req EXCEPT ![p].at = "s.GetPostByID40", ![p].id = id.n]
  /\ StoreUnchanged

\* PostService.GetPostByID calls the store
ServiceGetPostByID(p) ==
  /\ req[p].at = "s.GetPostByID40"
  /\ GetByID_RLock(p)
  /\ Goto(p, "s.GetPostByID41")

\* the store's GetByID with the id of the request (for GetPostByID and UpdatePost)
RepoGetByID(p) ==
  /\ req[p].at \in {"s.GetPostByID41", "s.UpdatePost68"}
  /\ GetByID(p)
  /\ res'[p].id = req[p].id
  /\ UNCHANGED req

\* PostService.GetPostByID returns and PostHandler.GetPost answers
HandlerGetPostRespond(p) ==
  /\ req[p].at = "s.GetPostByID41"
  /\ pc[p] = "idle"
  /\ LET err == ServiceErr(res[p].err)
     IN  IF err = ErrPostNotFound THEN Respond(p, StatusNotFound, err, << >>)
         ELSE IF err # Nil THEN Respond(p, StatusInternalServerError, err, << >>)
         ELSE Respond(p, StatusOK, Nil, res[p].ret)
  /\ StoreUnchanged

\* PostHandler.GetAllPosts: PostService.GetAllPosts calls the store
ServiceGetAllPosts(p) ==
  /\ req[p].at = "s.GetAllPosts51"
  /\ GetAll_RLock(p)
  /\ Goto(p, "s.GetAllPosts52")

RepoGetAll(p) ==
  /\ req[p].at = "s.GetAllPosts52"
  /\ GetAll(p)
  /\ UNCHANGED req

\* PostService.GetAllPosts returns and PostHandler.GetAllPosts answers
HandlerGetAllPostsRespond(p) ==
  /\ req[p].at = "s.GetAllPosts52"
  /\ pc[p] = "idle"
  /\ LET err == ServiceErr(res[p].err)
     IN  IF err # Nil THEN Respond(p, StatusInternalServerError, err, << >>)
         ELSE Respond(p, StatusOK, Nil, res[p].ret)
  /\ StoreUnchanged

\* PostHandler.UpdatePost up to the call of the service
HandlerUpdatePost(p) ==
  /\ req[p].at = "h.UpdatePost113"
  /\ LET id == Atoi(req[p].idStr)
         err == ShouldBindJSON(req[p].body)
     IN  IF id.err # Nil THEN Respond(p, StatusBadRequest, id.err, << >>)
         ELSE IF err # Nil THEN Respond(p, StatusBadRequest, err, << >>)
         ELSE req' = [req EXCEPT ![p].at = "s.UpdatePost67", ![p].id = id.n]
  /\ StoreUnchanged

\* PostService.UpdatePost calls the store's GetByID
ServiceUpdatePost67(p) ==
  /\ req[p].at = "s.UpdatePost67"
  /\ GetByID_RLock(p)
  /\ Goto(p, "s.UpdatePost68")

\* PostService.UpdatePost, lines 68 to 74: the error of GetByID, then
\* existingPost.Update on the post GetByID returned
ServiceUpdatePost68(p) ==
  /\ req[p].at = "s.UpdatePost68"
  /\ pc[p] = "idle"
  /\ IF res[p].err # Nil
     THEN /\ req' = [req EXCEPT ![p].at = "h.UpdatePost142", ![p].err = ServiceErr(res[p].err)]
          /\ UNCHANGED heap
     ELSE LET existingPost == held[p][1]
              t == req[p].body.t
              upd == Post_Update(heap[existingPost], t[1], t[2], t[3])
          IN  /\ heap' = [heap EXCEPT ![existingPost] = upd.post]
              /\ IF upd.err # Nil
                 THEN req' = [req EXCEPT ![p].at = "h.UpdatePost142",
                                         ![p].err = ServiceErr(upd.err)]
                 ELSE req' = [req EXCEPT ![p].at = "s.UpdatePost76", ![p].post = <<upd.post>>]
  /\ UNCHANGED <<posts, nextID, mutex, pc, local, held, res>>

\* PostService.UpdatePost calls the store's Update
ServiceUpdatePost76(p) ==
  /\ req[p].at = "s.UpdatePost76"
  /\ Update_Lock(p)
  /\ Goto(p, "s.UpdatePost77")

\* the store's Update with the id of the request and existingPost (passed as
\* the value it has)
RepoUpdate(p) ==
  /\ req[p].at = "s.UpdatePost77"
  /\ UpdateOf(p, req[p].id, req[p].post[1])
  /\ UNCHANGED req

\* PostService.UpdatePost, lines 76 to 81
ServiceUpdatePost77(p) ==
  /\ req[p].at = "s.UpdatePost77"
  /\ pc[p] = "idle"
  /\ IF res[p].err # Nil
     THEN req' = [req EXCEPT ![p].at = "h.UpdatePost142",
                             ![p].err = ServiceErr(res[p].err), ![p].post = << >>]
     ELSE Goto(p, "h.UpdatePost142")
  /\ StoreUnchanged

\* PostHandler.UpdatePost answers
HandlerUpdatePostRespond(p) ==
  /\ req[p].at = "h.UpdatePost142"
  /\ LET err == req[p].err
     IN  IF err = ErrPostNotFound THEN Respond(p, StatusNotFound, err, << >>)
         ELSE IF err # Nil THEN Respond(p, StatusBadRequest, err, << >>)
         ELSE Respond(p, StatusOK, Nil, req[p].post)
  /\ StoreUnchanged

\* PostHandler.DeletePost up to the call of the service
HandlerDeletePost(p) ==
  /\ req[p].at = "h.DeletePost165"
  /\ LET id == Atoi(req[p].idStr)
     IN  IF id.err # Nil THEN Respond(p, StatusBadRequest, id.err, << >>)
         ELSE req' = [req EXCEPT ![p].at = "s.DeletePost87", ![p].id = id.n]
  /\ StoreUnchanged

\* PostService.DeletePost calls the store
ServiceDeletePost(p) ==
  /\ req[p].at = "s.DeletePost87"
  /\ Delete_Lock(p)
  /\ Goto(p, "s.DeletePost88")

RepoDelete(p) ==
  /\ req[p].at = "s.DeletePost88"
  /\ Delete(p)
  /\ res'[p].id = req[p].id
  /\ UNCHANGED req

\* PostService.DeletePost returns and PostHandler.DeletePost answers
HandlerDeletePostRespond(p) ==
  /\ req[p].at = "s.DeletePost88"
  /\ pc[p] = "idle"
  /\ LET err == ServiceErr(res[p].err)
     IN  IF err = ErrPostNotFound THEN Respond(p, StatusNotFound, err, << >>)
         ELSE IF err # Nil THEN Respond(p, StatusInternalServerError, err, << >>)
         ELSE Respond(p, StatusNoContent, Nil, << >>)
  /\ StoreUnchanged

\* ------------------------------------------------------------- loader
\* What os.ReadFile and json.Unmarshal make of a file: the file cannot be
\* read, or it is not the JSON of a BlogData, or it yields the records t.
ErrReadFile == "open blog_data.json: no such file or directory"
ErrUnmarshal == "unexpected end of JSON input"
Unreadable == [read |-> FALSE, json |-> FALSE, t |-> << >>]
Malformed == [read |-> TRUE, json |-> FALSE, t |-> << >>]
BlogData(records) == [read |-> TRUE, json |-> TRUE, t |-> records]

\* The record at position i of a file: the post of a batch at that position,
\* or a record NewPost refuses (no title at odd positions, blank content at
\* even ones).
PostData(id, i, valid) ==
  LET t == IF i % 2 = 1 THEN TripleNoTitle ELSE TripleBlankContent
  IN  IF valid THEN BatchPost(id, i) ELSE Post(id, t[1], t[2], t[3])

Files ==
  {Unreadable, Malformed}
    \cup {BlogData([i \in 1..Len(q) |-> PostData(q[i][1], i, q[i][2])]) :
            q \in SeqsUpTo(IDs \X BOOLEAN, MaxBatch)}

\* A loop that skips the records NewPost refuses and reports no error.
BuildPosts_SkipInvalid(records) ==
  LET built == [i \in 1..Len(records) |->
                  NewPost(records[i].ID, records[i].Title, records[i].Content,
                          records[i].Author)]
      RECURSIVE Kept(_)
      Kept(i) == IF i > Len(records) THEN << >>
                 ELSE IF built[i].err = Nil THEN <<built[i].post>> \o Kept(i + 1)
                 ELSE Kept(i + 1)
  IN  [posts |-> Kept(1), err |-> Nil]

\* posts := make(...); for i, postData := range blogData.Posts { ... }: the
\* loop returns at the first record NewPost refuses.
BuildPosts(records) ==
  LET built == [i \in 1..Len(records) |->
                  NewPost(records[i].ID, records[i].Title, records[i].Content,
                          records[i].Author)]
      bad == {i \in 1..Len(records) : built[i].err # Nil}
  IN  IF bad = {} THEN [posts |-> [i \in 1..Len(records) |-> built[i].post], err |-> Nil]
      ELSE [posts |-> << >>,
            err |-> built[CHOOSE i \in bad : \A j \in bad : i <= j].err]

\* DataLoader.LoadFromFile returns err.
LoadReturn(p, file, err) ==
  req' = [req EXCEPT ![p] = [at |-> "idle", method |-> "LOAD", idStr |-> << >>,
                             body |-> file, id |-> 0, status |-> 0, err |-> err,
                             post |-> << >>, was |-> StoreValue]]

\* DataLoader.LoadFromFile up to the call of the store
LoadFromFile(p) ==
  /\ req[p].at = "idle"
  /\ pc[p] = "idle"
  /\ \E file \in Files :
       IF ~file.read THEN LoadReturn(p, file, ErrReadFile)
       ELSE IF ~file.json THEN LoadReturn(p, file, ErrUnmarshal)
       ELSE LET built == BuildPosts(file.t)
            IN  IF built.err # Nil THEN LoadReturn(p, file, built.err)
                ELSE req' = [req EXCEPT ![p] =
                               [at |-> "l.LoadFromFile60", method |-> "LOAD",
                                idStr |-> << >>, body |-> file, id |-> 0, status |-> 0,
                                err |-> Nil, post |-> built.posts, was |-> StoreValue]]
  /\ StoreUnchanged

\* DataLoader.LoadFromFile calls the store
LoaderLoadData(p) ==
  /\ req[p].at = "l.LoadFromFile60"
  /\ LoadData_Lock(p)
  /\ Goto(p, "l.LoadFromFile61")

\* the store's LoadData with the posts the loader built
RepoLoadData(p) ==
  /\ req[p].at = "l.LoadFromFile61"
  /\ LoadDataOf(p, req[p].post)
  /\ UNCHANGED req

\* DataLoader.LoadFromFile returns what the store returned
LoadFromFileReturn(p) ==
  /\ req[p].at = "l.LoadFromFile61"
  /\ pc[p] = "idle"
  /\ req' = [req EXCEPT ![p].at = "idle", ![p].err = res[p].err]
  /\ StoreUnchanged

\* ------------------------------------------------------------- history
\* The history variables are written by an observer of the steps, not by the
\* program: a goroutine returns from a method in the step that takes its pc
\* from that method to "idle".
Returns(p, position) == pc[p] = position /\ pc'[p] = "idle"

Record ==
  /\ generated' = generated \cup
       {res'[p].id : p \in {q \in Procs : Returns(q, "CreatePost50") /\ res'[q].err = Nil}}
  /\ deleted' = deleted \cup
       {res'[p].id : p \in {q \in Procs : Returns(q, "Delete") /\ res'[q].err = Nil}}

NoRecord == UNCHANGED <<generated, deleted>>

\* A step of a goroutine that serves no request.
NoRequest == UNCHANGED req

\* ------------------------------------------------------------- system
\* The counter values at which the callers of the model call CreatePost.
InRange(n) == 0 <= n /\ n <= MaxNext

\* One goroutine uses the whole API, one call after the other.
Callers == {1}

\* The store used through its whole API.
Next ==
  \E p \in Callers :
    \/ Create_Lock(p) /\ NoRecord /\ NoRequest
    \/ Create(p) /\ NoRecord /\ NoRequest
    \/ InRange(nextID) /\ CreatePost_Lock(p) /\ NoRecord /\ NoRequest
    \/ CreatePost47(p) /\ NoRecord /\ NoRequest
    \/ CreatePost48(p) /\ NoRecord /\ NoRequest
    \/ CreatePost50(p) /\ NoRecord /\ NoRequest
    \/ GetByID_RLock(p) /\ NoRecord /\ NoRequest
    \/ GetByID(p) /\ NoRecord /\ NoRequest
    \/ GetAll_RLock(p) /\ NoRecord /\ NoRequest
    \/ GetAll(p) /\ NoRecord /\ NoRequest
    \/ Update_Lock(p) /\ NoRecord /\ NoRequest
    \/ Update(p) /\ NoRecord /\ NoRequest
    \/ Cardinality(deleted) < MaxDeleted /\ Delete_Lock(p) /\ NoRecord /\ NoRequest
    \/ Delete(p) /\ NoRecord /\ NoRequest
    \/ Exists_RLock(p) /\ NoRecord /\ NoRequest
    \/ Exists(p) /\ NoRecord /\ NoRequest
    \/ LoadData_Lock(p) /\ NoRecord /\ NoRequest
    \/ LoadData(p) /\ NoRecord /\ NoRequest
    \/ Mutate(p) /\ NoRecord /\ NoRequest

Spec == Init /\ [][Next]_vars

\* The same with the history of generated and deleted IDs.
NextHistory ==
  \E p \in Callers :
    \/ Create_Lock(p) /\ Record /\ NoRequest
    \/ Create(p) /\ Record /\ NoRequest
    \/ InRange(nextID) /\ CreatePost_Lock(p) /\ Record /\ NoRequest
    \/ CreatePost47(p) /\ Record /\ NoRequest
    \/ CreatePost48(p) /\ Record /\ NoRequest
    \/ CreatePost50(p) /\ Record /\ NoRequest
    \/ GetByID_RLock(p) /\ Record /\ NoRequest
    \/ GetByID(p) /\ Record /\ NoRequest
    \/ GetAll_RLock(p) /\ Record /\ NoRequest
    \/ GetAll(p) /\ Record /\ NoRequest
    \/ Update_Lock(p) /\ Record /\ NoRequest
    \/ Update(p) /\ Record /\ NoRequest
    \/ Cardinality(deleted) < MaxDeleted /\ Delete_Lock(p) /\ Record /\ NoRequest
    \/ Delete(p) /\ Record /\ NoRequest
    \/ Exists_RLock(p) /\ Record /\ NoRequest
    \/ Exists(p) /\ Record /\ NoRequest
    \/ LoadData_Lock(p) /\ Record /\ NoRequest
    \/ LoadData(p) /\ Record /\ NoRequest
    \/ Mutate(p) /\ Record /\ NoRequest

SpecHistory == Init /\ [][NextHistory]_vars

\* NumProcs goroutines each call CreatePost once, at the same time, on a store
\* that is new or whose counter has reached MaxInt.
InitConc ==
  /\ posts = [k \in {} |-> StoreSlot(0)]
  /\ nextID \in {1, MaxInt}
  /\ mutex = [w |-> 0, r |-> {}]
  /\ heap = [a \in {} |-> Post(0, << >>, << >>, << >>)]
  /\ pc = [p \in Procs |-> "idle"]
  /\ local = [p \in Procs |-> 0]
  /\ held = [p \in Procs |-> << >>]
  /\ res = [p \in Procs |-> NoRes]
  /\ req = [p \in Procs |-> NoReq]
  /\ generated = {}
  /\ deleted = {}

NextConc ==
  \E p \in Procs :
    \/ res[p] = NoRes /\ CreatePost_Lock(p) /\ NoRecord /\ NoRequest
    \/ CreatePost47(p) /\ NoRecord /\ NoRequest
    \/ CreatePost48(p) /\ NoRecord /\ NoRequest
    \/ CreatePost50(p) /\ NoRecord /\ NoRequest

SpecConc == InitConc /\ [][NextConc]_vars

\* A store as constructed is loaded once (the loader at startup) and then
\* CreatePost is called once, by any goroutine.
IsNew == posts = << >> /\ nextID = 1
Called(op) == \E q \in Procs : res[q].op = op

NextLoad ==
  \E p \in Procs :
    \/ IsNew /\ LoadData_Lock(p) /\ NoRecord /\ NoRequest
    \/ LoadData(p) /\ NoRecord /\ NoRequest
    \/ posts # << >> /\ ~Called("CreatePost") /\ CreatePost_Lock(p) /\ NoRecord /\ NoRequest
    \/ CreatePost47(p) /\ NoRecord /\ NoRequest
    \/ CreatePost48(p) /\ NoRecord /\ NoRequest
    \/ CreatePost50(p) /\ NoRecord /\ NoRequest

SpecLoad == Init /\ [][NextLoad]_vars

\* Goroutines use the store at the same time, each with one call of any
\* method: the call, the wait at the Lock or RLock that is the first statement
\* of the method, and the steps inside.
LockPositions ==
  {"Create25", "CreatePost44", "GetByID63", "GetAll76", "Update94", "Delete109",
   "Exists121", "LoadData129"}

Call(p) ==
  /\ pc[p] = "idle"
  /\ res[p] = NoRes
  /\ \E at \in LockPositions : pc' = [pc EXCEPT ![p] = at]
  /\ UNCHANGED <<posts, nextID, mutex, heap, local, held, res>>

Create25(p) == CanLock(mutex) /\ EnterFrom(p, "Create25", "Create", Lock(mutex, p))
CreatePost44(p) ==
  CanLock(mutex) /\ EnterFrom(p, "CreatePost44", "CreatePost47", Lock(mutex, p))
GetByID63(p) == CanRLock(mutex) /\ EnterFrom(p, "GetByID63", "GetByID", RLock(mutex, p))
GetAll76(p) == CanRLock(mutex) /\ EnterFrom(p, "GetAll76", "GetAll", RLock(mutex, p))
Update94(p) == CanLock(mutex) /\ EnterFrom(p, "Update94", "Update", Lock(mutex, p))
Delete109(p) == CanLock(mutex) /\ EnterFrom(p, "Delete109", "Delete", Lock(mutex, p))
Exists121(p) == CanRLock(mutex) /\ EnterFrom(p, "Exists121", "Exists", RLock(mutex, p))
LoadData129(p) ==
  CanLock(mutex) /\ EnterFrom(p, "LoadData129", "LoadData", Lock(mutex, p))

\* What the goroutines of this use pass: the ID 1, the fields of TripleA or a
\* blank title, the post Post(1, TripleA), a batch of that post or of none.
FewArgs ==
  LET post == Post(1, TripleA[1], TripleA[2], TripleA[3])
  IN  {<< >>, TripleA, TripleNoTitle, <<post>>}

Few(p) ==
  /\ NoRecord
  /\ NoRequest
  /\ res'[p].args \in FewArgs
  /\ res'[p].op \in {"GetByID", "Update", "Delete", "Exists"} => res'[p].id = 1

\* What a goroutine that has called a method does next.
Run(p) ==
  \/ Create25(p) /\ Few(p)
  \/ Create(p) /\ Few(p)
  \/ CreatePost44(p) /\ Few(p)
  \/ CreatePost47(p) /\ Few(p)
  \/ CreatePost48(p) /\ Few(p)
  \/ CreatePost50(p) /\ Few(p)
  \/ GetByID63(p) /\ Few(p)
  \/ GetByID(p) /\ Few(p)
  \/ GetAll76(p) /\ Few(p)
  \/ GetAll(p) /\ Few(p)
  \/ Update94(p) /\ Few(p)
  \/ Update(p) /\ Few(p)
  \/ Delete109(p) /\ Few(p)
  \/ Delete(p) /\ Few(p)
  \/ Exists121(p) /\ Few(p)
  \/ Exists(p) /\ Few(p)
  \/ LoadData129(p) /\ Few(p)
  \/ LoadData(p) /\ Few(p)

NextRW ==
  \E p \in Procs :
    \/ Call(p) /\ NoRecord /\ NoRequest
    \/ Create25(p) /\ Few(p)
    \/ Create(p) /\ Few(p)
    \/ CreatePost44(p) /\ Few(p)
    \/ CreatePost47(p) /\ Few(p)
    \/ CreatePost48(p) /\ Few(p)
    \/ CreatePost50(p) /\ Few(p)
    \/ GetByID63(p) /\ Few(p)
    \/ GetByID(p) /\ Few(p)
    \/ GetAll76(p) /\ Few(p)
    \/ GetAll(p) /\ Few(p)
    \/ Update94(p) /\ Few(p)
    \/ Update(p) /\ Few(p)
    \/ Delete109(p) /\ Few(p)
    \/ Delete(p) /\ Few(p)
    \/ Exists121(p) /\ Few(p)
    \/ Exists(p) /\ Few(p)
    \/ LoadData129(p) /\ Few(p)
    \/ LoadData(p) /\ Few(p)

SpecRW == Init /\ [][NextRW]_vars

\* The Go scheduler runs every goroutine that can run.
SpecRWFair == SpecRW /\ \A p \in Procs : WF_vars(Run(p))

\* The entity used by itself.
NextEntity ==
  \E p \in Callers :
    \/ CallNewPost(p) /\ NoRecord /\ NoRequest
    \/ CallValidate(p) /\ NoRecord /\ NoRequest
    \/ CallUpdate(p) /\ NoRecord /\ NoRequest

SpecEntity == Init /\ [][NextEntity]_vars

\* The API served over HTTP, one request after the other.
NextHTTP ==
  \E p \in Callers :
    \/ InRange(nextID) /\ Serve(p) /\ NoRecord
    \/ HandlerCreatePost(p) /\ NoRecord
    \/ ServiceCreatePost(p) /\ NoRecord
    \/ CreatePost47(p) /\ NoRecord /\ NoRequest
    \/ CreatePost48(p) /\ NoRecord /\ NoRequest
    \/ RepoCreatePost(p) /\ NoRecord
    \/ HandlerCreatePostRespond(p) /\ NoRecord
    \/ HandlerGetPost(p) /\ NoRecord
    \/ ServiceGetPostByID(p) /\ NoRecord
    \/ RepoGetByID(p) /\ NoRecord
    \/ HandlerGetPostRespond(p) /\ NoRecord
    \/ ServiceGetAllPosts(p) /\ NoRecord
    \/ RepoGetAll(p) /\ NoRecord
    \/ HandlerGetAllPostsRespond(p) /\ NoRecord
    \/ HandlerUpdatePost(p) /\ NoRecord
    \/ ServiceUpdatePost67(p) /\ NoRecord
    \/ ServiceUpdatePost68(p) /\ NoRecord
    \/ ServiceUpdatePost76(p) /\ NoRecord
    \/ RepoUpdate(p) /\ NoRecord
    \/ ServiceUpdatePost77(p) /\ NoRecord
    \/ HandlerUpdatePostRespond(p) /\ NoRecord
    \/ HandlerDeletePost(p) /\ NoRecord
    \/ ServiceDeletePost(p) /\ NoRecord
    \/ RepoDelete(p) /\ NoRecord
    \/ HandlerDeletePostRespond(p) /\ NoRecord

SpecHTTP == Init /\ [][NextHTTP]_vars

\* The loader alone: one goroutine loads file after file into the store.
NextFile ==
  \E p \in Callers :
    \/ LoadFromFile(p) /\ NoRecord
    \/ LoaderLoadData(p) /\ NoRecord
    \/ RepoLoadData(p) /\ NoRecord
    \/ LoadFromFileReturn(p) /\ NoRecord

SpecFile == Init /\ [][NextFile]_vars

\* The application: main loads the file into a new store, goes on whatever
\* the loader returned, and then the other goroutines call the methods of
\* PostService concurrently, call after call.
Main == 1
Servers == Procs \ {Main}
Started == req[Main].method = "LOAD" /\ req[Main].at = "idle"

StartupFiles ==
  {Unreadable,
   BlogData(<<PostData(1, 1, TRUE)>>),
   BlogData(<<PostData(1, 1, TRUE), PostData(0, 2, FALSE)>>)}

\* The first statement of the method of PostService.
ServiceEntry(method) ==
  CASE method = "POST" -> "s.CreatePost28"
    [] method = "GET" -> "s.GetPostByID40"
    [] method = "GETALL" -> "s.GetAllPosts51"
    [] method = "PUT" -> "s.UpdatePost67"
    [] method = "DELETE" -> "s.DeletePost87"

ServiceIDs == {1}
ServiceTriples == {TripleA, TripleB, TripleBlankContent}

\* A goroutine calls a method of PostService with an id and fields.
CallService(p) ==
  /\ req[p].at = "idle"
  /\ pc[p] = "idle"
  /\ \E method \in Methods, id \in ServiceIDs \cup {0},
        body \in {JSON(t) : t \in ServiceTriples} \cup {NoBody} :
       /\ (id = 0) = (method \in {"POST", "GETALL"})
       /\ (body = NoBody) = (method \in {"GET", "GETALL", "DELETE"})
       /\ method = "POST" => InRange(nextID)
       /\ req' = [req EXCEPT ![p] = [at |-> ServiceEntry(method), method |-> method,
                                     idStr |-> << >>, body |-> body, id |-> id,
                                     status |-> 0, err |-> Nil, post |-> << >>,
                                     was |-> << >>]]
  /\ StoreUnchanged

NextApp ==
  \E p \in Procs :
    \/ p = Main /\ req[p] = NoReq /\ LoadFromFile(p) /\ req'[p].body \in StartupFiles /\ NoRecord
    \/ p = Main /\ LoaderLoadData(p) /\ NoRecord
    \/ p = Main /\ RepoLoadData(p) /\ NoRecord
    \/ p = Main /\ LoadFromFileReturn(p) /\ NoRecord
    \/ p \in Servers /\ Started /\ CallService(p) /\ NoRecord
    \/ ServiceCreatePost(p) /\ NoRecord
    \/ CreatePost47(p) /\ NoRecord /\ NoRequest
    \/ CreatePost48(p) /\ NoRecord /\ NoRequest
    \/ RepoCreatePost(p) /\ NoRecord
    \/ HandlerCreatePostRespond(p) /\ NoRecord
    \/ ServiceGetPostByID(p) /\ NoRecord
    \/ RepoGetByID(p) /\ NoRecord
    \/ HandlerGetPostRespond(p) /\ NoRecord
    \/ ServiceGetAllPosts(p) /\ NoRecord
    \/ RepoGetAll(p) /\ NoRecord
    \/ HandlerGetAllPostsRespond(p) /\ NoRecord
    \/ ServiceUpdatePost67(p) /\ NoRecord
    \/ ServiceUpdatePost68(p) /\ NoRecord
    \/ ServiceUpdatePost76(p) /\ NoRecord
    \/ RepoUpdate(p) /\ NoRecord
    \/ ServiceUpdatePost77(p) /\ NoRecord
    \/ HandlerUpdatePostRespond(p) /\ NoRecord
    \/ ServiceDeletePost(p) /\ NoRecord
    \/ RepoDelete(p) /\ NoRecord
    \/ HandlerDeletePostRespond(p) /\ NoRecord

SpecApp == Init /\ [][NextApp]_vars

\* ------------------------------------------------------------- properties
TypeOK ==
  /\ nextID \in Int
  /\ \A k \in DOMAIN posts : posts[k] \in DOMAIN heap
  /\ \A p \in Procs : \A i \in 1..Len(held[p]) : held[p][i] \in DOMAIN heap

\* A call of goroutine p that has returned without error.
Succeeded(p, op) == pc[p] = "idle" /\ res[p].op = op /\ res[p].err = Nil

\* Goroutine p writes a field of the post it points to (the step of Mutate).
Mutates(p) == pc[p] = "idle" /\ pc'[p] = "idle" /\ held[p] # << >> /\ held'[p] = << >>

\* C1: concurrent CreatePost calls with valid fields return posts with
\* pairwise distinct IDs, and each returned post is in the store, under the
\* ID it carries and with the fields that were returned.
ConcurrentCreateDistinct ==
  /\ \A p, q \in Procs :
       (p # q /\ Succeeded(p, "CreatePost") /\ Succeeded(q, "CreatePost"))
         => res[p].id # res[q].id
  /\ \A p \in Procs :
       Succeeded(p, "CreatePost") =>
         /\ held[p] # << >>
         /\ heap[held[p][1]].ID = res[p].id
         /\ res[p].id \in DOMAIN posts
         /\ StoreValue[res[p].id] = heap[held[p][1]]

\* Every goroutine has returned from its CreatePost with a post.
AllCreated == \A p \in Procs : Succeeded(p, "CreatePost")

\* C2: after every step nextID is strictly greater than every ID that is or
\* ever was a key of the map, and no step decreases nextID.
NextIDAboveEveryKey ==
  [][(\A k \in EverKeys' : k < nextID') /\ nextID' >= nextID]_vars

\* C3: a CreatePost that fails validation leaves nextID as it was when the
\* call read it (local is the id read at line 47, under the mutex).
FailedCreatePostKeepsNextID ==
  [][\A p \in Procs :
       (Returns(p, "CreatePost50") /\ res'[p].err # Nil) => nextID' = local[p]]_vars

\* C4: a successful CreatePost on a store as constructed returns 1, and every
\* successful CreatePost returns an ID greater than every ID a successful
\* CreatePost returned before, whatever was called in between.
GeneratedIDsIncrease ==
  [][\A p \in Procs :
       (Returns(p, "CreatePost50") /\ res'[p].err = Nil) =>
         /\ (posts = << >> /\ local[p] = 1) => res'[p].id = 1
         /\ \A g \in generated : res'[p].id > g]_vars

\* C5: GetByID of an ID that Delete removed and nothing re-inserted returns
\* ErrPostNotFound, and no successful CreatePost returns an ID that Delete
\* removed.
DeletedIDNeverReallocated ==
  [][\A p \in Procs :
       /\ (Returns(p, "GetByID") /\ res'[p].id \in deleted /\ res'[p].id \notin DOMAIN posts)
            => res'[p].err = ErrPostNotFound
       /\ (Returns(p, "CreatePost50") /\ res'[p].err = Nil)
            => res'[p].id \notin deleted]_vars

\* C6: writing a field of a post that GetByID, GetAll or CreatePost returned
\* changes nothing of the store: not the map, not the counter, not the value
\* stored under any key (which is what a later GetByID or GetAll copies).
ReadOps == {"GetByID", "GetAll", "CreatePost"}
ReturnedPostsAreCopies ==
  [][\A p \in Procs :
       (Mutates(p) /\ res[p].op \in ReadOps /\ res[p].err = Nil) =>
         (posts' = posts /\ nextID' = nextID /\ StoreValue' = StoreValue)]_vars

\* A goroutine has written a field of a post GetByID returned to it, with the
\* store not empty.
MutatedReturnedPost ==
  \E p \in Procs :
    Succeeded(p, "GetByID") /\ held[p] = << >> /\ res[p].id \in DOMAIN posts

\* C7: writing a field of a post that was passed to a successful Create,
\* Update or LoadData, after the call has returned, changes nothing of the
\* store.
WriteOps == {"Create", "Update", "LoadData"}
PassedPostsAreCopied ==
  [][\A p \in Procs :
       (Mutates(p) /\ res[p].op \in WriteOps /\ res[p].err = Nil) =>
         (posts' = posts /\ nextID' = nextID /\ StoreValue' = StoreValue)]_vars

\* A goroutine has written a field of a post it had passed to a successful
\* Update.
MutatedPassedPost ==
  \E p \in Procs :
    Succeeded(p, "Update") /\ held[p] = << >> /\ res[p].id \in DOMAIN posts

\* C8: Update of an ID that is not a key returns ErrPostNotFound and leaves
\* the map, the stored values and nextID as they were.
UpdateMissingChangesNothing ==
  [][\A p \in Procs :
       (Returns(p, "Update") /\ res'[p].id \notin DOMAIN posts) =>
         /\ res'[p].err = ErrPostNotFound
         /\ posts' = posts
         /\ StoreValue' = StoreValue
         /\ nextID' = nextID]_vars

\* An Update of a missing ID has returned, with the store not empty.
UpdatedMissing ==
  \E p \in Procs :
    /\ pc[p] = "idle" /\ res[p].op = "Update" /\ res[p].err = ErrPostNotFound
    /\ res[p].id \notin DOMAIN posts
    /\ posts # << >>

\* C9: a successful Update(id, post) stores the title, content and author of
\* post under id with ID id, whatever ID post carries, and the map has the
\* keys it had.
UpdateStoresFieldsUnderID ==
  [][\A p \in Procs :
       (Returns(p, "Update") /\ res'[p].err = Nil) =>
         LET id == res'[p].id
             post == heap'[held'[p][1]]
         IN  /\ DOMAIN posts' = DOMAIN posts
             /\ id \in DOMAIN posts
             /\ StoreValue'[id] = Post(id, post.Title, post.Content, post.Author)]_vars

\* A successful Update has returned whose post carries another ID than the
\* one it was stored under, and other fields than the post it replaced.
UpdatedWithOtherID ==
  \E p \in Procs :
    /\ Succeeded(p, "Update") /\ held[p] # << >>
    /\ heap[held[p][1]].ID # res[p].id
    /\ StoreValue[res[p].id].Title = heap[held[p][1]].Title
    /\ \E k \in DOMAIN posts : StoreValue[k].Title # heap[held[p][1]].Title

\* C10: Create of a post whose ID is a key returns ErrPostExists and leaves
\* the map, the stored values and nextID as they were.
CreateExistingChangesNothing ==
  [][\A p \in Procs :
       (Returns(p, "Create") /\ res'[p].id \in DOMAIN posts) =>
         /\ res'[p].err = ErrPostExists
         /\ posts' = posts
         /\ StoreValue' = StoreValue
         /\ nextID' = nextID]_vars

\* A Create has returned ErrPostExists for a post that differs from the one
\* stored under its ID.
CreatedExisting ==
  \E p \in Procs :
    /\ pc[p] = "idle" /\ res[p].op = "Create" /\ res[p].err = ErrPostExists
    /\ held[p] # << >>
    /\ res[p].id \in DOMAIN posts
    /\ StoreValue[res[p].id] # heap[held[p][1]]

\* The greatest of a non-empty set of IDs.
MaxKey(S) == CHOOSE m \in S : \A k \in S : k <= m

\* C11: on a store as constructed, after LoadData of a non-empty batch of
\* posts with positive IDs (the keys of the map are then the IDs of the
\* batch), a successful CreatePost returns the greatest ID of the batch plus
\* one, as integers and not modulo the width of int.
LoadThenCreatePostReturnsMaxPlusOne ==
  [][\A p \in Procs :
       (/\ Returns(p, "CreatePost50") /\ res'[p].err = Nil
        /\ \A k \in DOMAIN posts : k > 0) =>
         LET m == MaxKey(DOMAIN posts)
         IN  m < MaxInt /\ res'[p].id = m + 1]_vars

\* The IDs of a sequence of posts.
IDsOf(ps) == {ps[i].ID : i \in 1..Len(ps)}

\* The step is the return of a call that writes under key k.
WritesTo(k) ==
  \E p \in Procs :
    \/ Returns(p, "Update") /\ res'[p].id = k
    \/ Returns(p, "Delete") /\ res'[p].id = k
    \/ Returns(p, "CreatePost50") /\ res'[p].id = k
    \/ Returns(p, "Create") /\ res'[p].id = k
    \/ Returns(p, "LoadData") /\ k \in IDsOf(res'[p].args)

\* C12: round trip.  A successful CreatePost returns a post whose fields are
\* the arguments and whose ID is the generated one, and that value is what is
\* stored under its ID; a successful Create(post) stores the value of post
\* under post.ID; no step that is not a write to an ID changes what is stored
\* under it; and GetByID of a key returns, without error, what is stored under
\* it.  So GetByID after CreatePost or Create, with no write to the ID in
\* between, returns a post equal in all four fields.
RoundTrip ==
  [][/\ \A p \in Procs :
          /\ (Returns(p, "CreatePost50") /\ res'[p].err = Nil) =>
                LET t == res'[p].args
                    x == res'[p].ret[1]
                IN  /\ x = Post(local[p], t[1], t[2], t[3])
                    /\ x.ID = res'[p].id
                    /\ x.ID \in DOMAIN posts'
                    /\ StoreValue'[x.ID] = x
          /\ (Returns(p, "Create") /\ res'[p].err = Nil) =>
                LET post == res'[p].args[1]
                IN  post.ID \in DOMAIN posts' /\ StoreValue'[post.ID] = post
          /\ (Returns(p, "GetByID") /\ res'[p].id \in DOMAIN posts) =>
                /\ res'[p].err = Nil
                /\ res'[p].ret = <<StoreValue[res'[p].id]>>
     /\ \A k \in DOMAIN posts :
          (k \notin DOMAIN posts' \/ StoreValue'[k] # StoreValue[k]) => WritesTo(k)]_vars

\* GetByID has returned the post of a key that only CreatePost generates (no
\* caller passes that ID to Create or LoadData).
RoundTripDone ==
  \E p \in Procs :
    /\ Succeeded(p, "GetByID") /\ res[p].id \notin IDs
    /\ res[p].ret = <<StoreValue[res[p].id]>>
    /\ res[p].ret[1].ID = res[p].id

\* C13: GetAll returns no error and one post per key of the map, each the
\* value stored under its ID, in strictly ascending order of ID; on an empty
\* map it returns the empty sequence.
GetAllSortedAndComplete ==
  [][\A p \in Procs :
       Returns(p, "GetAll") =>
         LET out == res'[p].ret
         IN  /\ res'[p].err = Nil
             /\ Len(out) = Cardinality(DOMAIN posts)
             /\ IDsOf(out) = DOMAIN posts
             /\ \A i \in 1..Len(out) : out[i] = StoreValue[out[i].ID]
             /\ \A i, j \in 1..Len(out) : i < j => out[i].ID < out[j].ID
             /\ (posts = << >> => out = << >>)]_vars

\* GetAll has returned three posts, one of them under a generated ID.
GotAllOfThree ==
  \E p \in Procs :
    Succeeded(p, "GetAll") /\ Len(res[p].ret) = 3 /\ IDsOf(res[p].ret) \ IDs # {}

\* The positions inside the critical sections.
ReadInside == {"GetByID", "GetAll", "Exists"}
WriteInside ==
  {"Create", "CreatePost47", "CreatePost48", "CreatePost50", "Update", "Delete", "LoadData"}

\* C14: while a goroutine is inside the critical section of a write method no
\* other goroutine is inside the critical section of any method.  (That
\* several readers are inside at the same time is the witness.)
ReadersWritersExclusion ==
  \A p, q \in Procs :
    (p # q /\ pc[p] \in WriteInside) => pc[q] \notin (ReadInside \cup WriteInside)

\* Two goroutines are inside critical sections of read methods while a third
\* waits at the Lock of a write method.
ReadersTogether ==
  \E p, q, w \in Procs :
    /\ p # q /\ pc[p] \in ReadInside /\ pc[q] \in ReadInside
    /\ pc[w] \in {"Create25", "CreatePost44", "Update94", "Delete109", "LoadData129"}

\* C15: a goroutine that is not inside a method holds the mutex in no mode
\* (every return path, the error returns included, has released it), and under
\* fair scheduling every goroutine that has called a method, whether it waits
\* at the Lock or RLock or is inside, returns.
OperationsReturn ==
  /\ [](\A p \in Procs :
         pc[p] \in {"idle"} \cup LockPositions => (mutex.w # p /\ p \notin mutex.r))
  /\ \A p \in Procs : (pc[p] # "idle") ~> (pc[p] = "idle")

\* Every goroutine has returned from its call, one of them from a write method
\* with an error, and the mutex is free.
AllReturned ==
  /\ \A p \in Procs : pc[p] = "idle" /\ res[p].op # "none"
  /\ \E p \in Procs : res[p].op \in {"Create", "CreatePost", "Update", "Delete"} /\ res[p].err # Nil
  /\ \E p \in Procs : res[p].op \in ReadInside
  /\ mutex = [w |-> 0, r |-> {}]

\* A string with nothing but white space.
Blank(s) == \A i \in 1..Len(s) : s[i] \in Space
\* A title over the limit of the length check of Validate.
OverLong(title) == ByteLen(title) > MaxTitleLen

\* C16: Validate, NewPost and Post.Update report the first rule violated in
\* the order blank title, blank content, blank author, over-long title, and no
\* error for fields that violate none; so an over-long title that is not
\* blank, with a blank content or author, gets the content or author message.
FirstViolatedRuleReported ==
  \A p \in Procs :
    res[p].op \in {"Validate", "NewPost", "Post.Update"} =>
      LET title == res[p].args[1]
          content == res[p].args[2]
          author == res[p].args[3]
          err == res[p].err
      IN  /\ Blank(title) => err = ErrTitleRequired
          /\ (~Blank(title) /\ Blank(content)) => err = ErrContentRequired
          /\ (~Blank(title) /\ ~Blank(content) /\ Blank(author)) => err = ErrAuthorRequired
          /\ (~Blank(title) /\ ~Blank(content) /\ ~Blank(author) /\ OverLong(title))
               => err = ErrTitleTooLong
          /\ (~Blank(title) /\ ~Blank(content) /\ ~Blank(author) /\ ~OverLong(title))
               => err = Nil

\* NewPost was given an over-long title that is not blank, a content that is
\* not blank and a blank author, and returned the author message.
OverLongWithBlankAuthor ==
  \E p \in Procs :
    /\ res[p].op = "NewPost" /\ res[p].err = ErrAuthorRequired
    /\ OverLong(res[p].args[1]) /\ ~Blank(res[p].args[1])
    /\ ~Blank(res[p].args[2]) /\ Blank(res[p].args[3])

\* C17: with a content and an author that are not blank, a title that is not
\* blank is accepted if it has at most 255 characters and rejected with the
\* length message if it has 256 or more.
TitleLimitIs255Characters ==
  \A p \in Procs :
    (/\ res[p].op \in {"Validate", "NewPost"}
     /\ ~Blank(res[p].args[1]) /\ ~Blank(res[p].args[2]) /\ ~Blank(res[p].args[3])) =>
      /\ Len(res[p].args[1]) <= MaxTitleLen => res[p].err = Nil
      /\ Len(res[p].args[1]) >= MaxTitleLen + 1 => res[p].err = ErrTitleTooLong

\* C18: Post.Update with fields that fail validation returns the error and
\* leaves the post as it was; with fields that pass it returns no error and the
\* post has the three fields given; the ID of the post stays.
UpdateAllOrNothing ==
  [][\A p \in Procs :
       (res'[p].op = "Post.Update" /\ held[p] # << >>) =>
         LET old == heap[held[p][1]]
             new == heap'[held'[p][1]]
             t == res'[p].args
             err == Validate(Post(old.ID, t[1], t[2], t[3]))
         IN  /\ res'[p].err = err
             /\ err # Nil => new = old
             /\ err = Nil => new = Post(old.ID, t[1], t[2], t[3])
             /\ new.ID = old.ID]_vars

\* Post.Update has returned the content message for fields of which the title
\* differs from that of the post.
UpdateRefused ==
  \E p \in Procs :
    /\ res[p].op = "Post.Update" /\ res[p].err = ErrContentRequired
    /\ held[p] # << >>
    /\ heap[held[p][1]].Title # res[p].args[1]

\* C19: PostService.UpdatePost on an existing id (GetByID has returned the
\* post) with fields that fail validation returns to the handler with the
\* validation error and no post, with the store as it was when the request
\* arrived; and the store's Update is entered only by a request whose fields
\* pass validation.
UpdatePostRejectsInvalidFields ==
  [][\A p \in Procs :
       LET t == req[p].body.t
           err == Validate(Post(req[p].id, t[1], t[2], t[3]))
       IN  /\ (/\ req[p].at = "s.UpdatePost68" /\ req'[p].at # "s.UpdatePost68"
                /\ res[p].err = Nil /\ err # Nil) =>
                 /\ req'[p].at = "h.UpdatePost142"
                 /\ req'[p].err = err
                 /\ req'[p].post = << >>
                 /\ pc'[p] = "idle"
                 /\ posts' = posts /\ StoreValue' = StoreValue
                 /\ StoreValue = req[p].was
           /\ (pc[p] # "Update" /\ pc'[p] = "Update") => err = Nil]_vars

\* A PUT of an existing id with a blank content was answered with the content
\* message, the store being as it was.
InvalidPutAnswered ==
  \E p \in Procs :
    /\ req[p].method = "PUT" /\ req[p].status = StatusBadRequest
    /\ req[p].err = ErrContentRequired
    /\ req[p].id \in DOMAIN req[p].was
    /\ StoreValue = req[p].was
    /\ StoreValue[req[p].id].Content # req[p].body.t[2]

\* C20: the status of an answered request follows from the request and the
\* store it met (was).  POST: 201 if the fields are valid, else 400.  GET: 400
\* if the id is no integer, 200 if it is a key, else 404.  GET of all: 200.
\* PUT: 400 if the id is no integer or the body does not bind, 404 if the id
\* is no key, 200 if the fields are valid, else 400.  DELETE: 400 if the id
\* is no integer, 204 if it is a key, else 404.  A 404 carries the store's
\* ErrPostNotFound itself.
StatusFollowsOutcome ==
  \A p \in Procs :
    req[p].status # 0 =>
      LET q == req[p]
          int == Atoi(q.idStr).err = Nil
          key == Atoi(q.idStr).n \in DOMAIN q.was
          binds == ShouldBindJSON(q.body) = Nil
          valid == binds /\ Validate(Post(0, q.body.t[1], q.body.t[2], q.body.t[3])) = Nil
      IN  /\ q.method = "POST" =>
                q.status = IF valid THEN StatusCreated ELSE StatusBadRequest
          /\ q.method = "GET" =>
                q.status = IF ~int THEN StatusBadRequest
                           ELSE IF key THEN StatusOK ELSE StatusNotFound
          /\ q.method = "GETALL" => q.status = StatusOK
          /\ q.method = "PUT" =>
                q.status = IF ~int \/ ~binds THEN StatusBadRequest
                           ELSE IF ~key THEN StatusNotFound
                           ELSE IF valid THEN StatusOK ELSE StatusBadRequest
          /\ q.method = "DELETE" =>
                q.status = IF ~int THEN StatusBadRequest
                           ELSE IF key THEN StatusNoContent ELSE StatusNotFound
          /\ q.status = StatusNotFound => q.err = ErrPostNotFound

\* A DELETE of an id that is no key was answered 404 by a store that is not
\* empty, and the store is as it was.
MissingDeleteAnswered ==
  \E p \in Procs :
    /\ req[p].method = "DELETE" /\ req[p].status = StatusNotFound
    /\ req[p].was # << >>
    /\ StoreValue = req[p].was

\* C23: every post held by the store has an ID of at least 1, and no two keys
\* of the map hold posts with one ID, in every state reachable through Create,
\* CreatePost, Update, Delete and LoadData.
StoredIDsPositiveAndUnique ==
  /\ \A k \in DOMAIN posts : StoreValue[k].ID >= 1
  /\ \A k, l \in DOMAIN posts : StoreValue[k].ID = StoreValue[l].ID => k = l

\* C24: a successful Create(post) leaves nextID at post.ID + 1, as integers,
\* when post.ID was at or above the previous nextID, and leaves nextID alone
\* otherwise; and a successful CreatePost never returns an ID that was already
\* a key of the map.
CreateAdvancesCounterOnlyWhenNeeded ==
  [][\A p \in Procs :
       /\ (Returns(p, "Create") /\ res'[p].err = Nil) =>
            LET id == res'[p].id
            IN  IF id >= nextID THEN id < MaxInt /\ nextID' = id + 1
                ELSE nextID' = nextID
       /\ (Returns(p, "CreatePost50") /\ res'[p].err = Nil) =>
            res'[p].id \notin DOMAIN posts]_vars

\* The last post of a batch that carries the ID.
LastWith(batch, id) ==
  batch[CHOOSE i \in 1..Len(batch) :
          batch[i].ID = id /\ \A j \in (i + 1)..Len(batch) : batch[j].ID # id]

\* C25: LoadData returns no error for every batch in every store state;
\* afterwards the keys of the map are the old keys and the IDs of the batch,
\* each ID of the batch holds the last post of the batch carrying it, and the
\* posts under the other keys are as they were.
LoadDataOverwrites ==
  [][\A p \in Procs :
       Returns(p, "LoadData") =>
         LET batch == res'[p].args
         IN  /\ res'[p].err = Nil
             /\ DOMAIN posts' = DOMAIN posts \cup IDsOf(batch)
             /\ \A id \in IDsOf(batch) : StoreValue'[id] = LastWith(batch, id)
             /\ \A k \in DOMAIN posts \ IDsOf(batch) :
                  StoreValue'[k] = StoreValue[k]]_vars

\* LoadData has returned from a batch of two different posts with one ID: the
\* second is stored under it, beside a post under a key that is not in the
\* batch.
LoadedTwiceUnderOneID ==
  \E p \in Procs :
    /\ Succeeded(p, "LoadData")
    /\ Len(res[p].args) = 2
    /\ res[p].args[1].ID = res[p].args[2].ID
    /\ res[p].args[1] # res[p].args[2]
    /\ StoreValue[res[p].args[2].ID] = res[p].args[2]
    /\ DOMAIN posts \ IDsOf(res[p].args) # {}

\* C26: the steps of GetByID, GetAll and Exists leave the map, the stored
\* posts and nextID as they were; Exists(id) returns true exactly when id is a
\* key of the map, and GetByID(id) returns no error exactly then.
ReadsArePure ==
  [][\A p \in Procs :
       /\ (pc'[p] # pc[p] /\ (pc[p] \in ReadInside \/ pc'[p] \in ReadInside)) =>
            (posts' = posts /\ nextID' = nextID /\ StoreValue' = StoreValue)
       /\ Returns(p, "Exists") =>
            (res'[p].found <=> res'[p].id \in DOMAIN posts)
       /\ Returns(p, "GetByID") =>
            (res'[p].err = Nil <=> res'[p].id \in DOMAIN posts)]_vars

\* Exists has answered false for an id that is no key of a map that has keys.
ExistsAnsweredFalse ==
  \E p \in Procs :
    /\ pc[p] = "idle" /\ res[p].op = "Exists"
    /\ ~res[p].found
    /\ res[p].id \notin DOMAIN posts
    /\ DOMAIN posts # {}

\* C27: in every reachable state of the store, the post stored under a key
\* has that key in its ID field.
KeyIsID == \A k \in DOMAIN posts : StoreValue[k].ID = k

\* Update has returned without error from a post that carried another ID than
\* the one updated, and the post stored under the updated ID carries that ID.
StoredUnderUpdatedKey ==
  \E p \in Procs :
    /\ Succeeded(p, "Update")
    /\ res[p].args[1].ID # res[p].id
    /\ res[p].args[1].ID \notin DOMAIN posts
    /\ StoreValue[res[p].id].ID = res[p].id

\* Some record of the file fails Post construction.
HasBadRecord(file) ==
  /\ file.read /\ file.json
  /\ \E i \in 1..Len(file.t) :
       Validate(Post(file.t[i].ID, file.t[i].Title, file.t[i].Content,
                     file.t[i].Author)) # Nil

\* The error of the first record of the file that fails Post construction.
FirstBadRecordError(file) ==
  LET bad == {i \in 1..Len(file.t) :
                Validate(Post(file.t[i].ID, file.t[i].Title, file.t[i].Content,
                              file.t[i].Author)) # Nil}
      i == CHOOSE k \in bad : \A j \in bad : k <= j
  IN  Validate(Post(file.t[i].ID, file.t[i].Title, file.t[i].Content, file.t[i].Author))

\* C21: when a record of the file fails Post construction, every step of
\* DataLoader.LoadFromFile leaves the map, the stored posts and nextID as they
\* were and never enters the store's LoadData, and the call returns the error
\* of that record.
LoadFromFileFailsFast ==
  [][\A p \in Procs :
       (/\ req'[p] # req[p] \/ pc'[p] # pc[p]
        /\ req'[p].method = "LOAD"
        /\ HasBadRecord(req'[p].body)) =>
         /\ posts' = posts /\ nextID' = nextID /\ StoreValue' = StoreValue
         /\ pc'[p] = "idle"
         /\ req'[p].at = "idle"
         /\ req'[p].err = FirstBadRecordError(req'[p].body)]_vars

\* LoadFromFile has returned the error of the second record of a file whose
\* first record is valid, and the store, which held posts, does not hold that
\* first record.
LoadRefusedAfterValidRecord ==
  \E p \in Procs :
    /\ req[p].method = "LOAD" /\ req[p].at = "idle" /\ req[p].err # Nil
    /\ Len(req[p].body.t) = 2
    /\ Validate(req[p].body.t[1]) = Nil
    /\ DOMAIN posts # {}
    /\ req[p].body.t[1].ID \notin DOMAIN posts
    /\ StoreValue = req[p].was

\* C22: no call of PostService.CreatePost, GetPostByID, GetAllPosts,
\* UpdatePost or DeletePost, in any sequence or interleaving, returns
\* ErrPostExists, and no call the service makes to the store returns it.
ServiceNeverReturnsErrPostExists ==
  \A p \in Procs : req[p].err # ErrPostExists /\ res[p].err # ErrPostExists

\* PostService.CreatePost has returned a post beside the posts main loaded
\* under explicit IDs, while another call of the service returned an error.
CreatedBesideLoadedPosts ==
  \E p, q \in Servers :
    /\ req[Main].err = Nil /\ req[Main].body.t # << >>
    /\ req[p].method = "POST" /\ req[p].at = "idle" /\ req[p].status = StatusCreated
    /\ req[p].post[1].ID \notin IDsOf(req[Main].body.t)
    /\ req[q].at = "idle" /\ req[q].err = ErrPostNotFound

\* C28: in every state reachable by DataLoader.LoadFromFile at startup
\* followed by any interleaving of calls of PostService, every stored post
\* satisfies Validate.
StoredPostsValid == \A k \in DOMAIN posts : Validate(StoreValue[k]) = Nil

\* After main loaded a file, PostService.UpdatePost has refused invalid fields
\* for a stored post and PostService.CreatePost has refused invalid fields.
InvalidFieldsRefusedAfterLoad ==
  \E p, q \in Servers :
    /\ req[Main].err = Nil /\ req[Main].body.t # << >>
    /\ req[p].method = "PUT" /\ req[p].at = "idle" /\ req[p].err = ErrContentRequired
    /\ req[p].id \in DOMAIN posts
    /\ req[q].method = "POST" /\ req[q].at = "idle" /\ req[q].err = ErrContentRequired

\* C29: every stored post has the ID of its key and the title, content and
\* author of one whole valid triple; a successful Update of the store made by
\* PostService.UpdatePost leaves under the id exactly the triple of that call,
\* and the call returns the post with its id and its own triple, whatever the
\* other goroutines do between its GetByID and its Update.
UpdatesNeverMixFields ==
  /\ [](\A k \in DOMAIN posts :
          /\ StoreValue[k].ID = k
          /\ <<StoreValue[k].Title, StoreValue[k].Content, StoreValue[k].Author>>
               \in {TripleA, TripleB})
  /\ [][\A p \in Procs :
          LET t == req[p].body.t
              own == Post(req[p].id, t[1], t[2], t[3])
          IN  /\ (req[p].method = "PUT" /\ Returns(p, "Update") /\ res'[p].err = Nil) =>
                   StoreValue'[req[p].id] = own
              /\ (/\ req[p].at = "h.UpdatePost142" /\ req'[p].at = "idle"
                  /\ req'[p].err = Nil) =>
                   req'[p].post = <<own>>]_vars

\* A goroutine is between the GetByID and the Update of its UpdatePost while
\* another goroutine's UpdatePost of the same id with the other triple has
\* stored its post.
UpdatesOverlap ==
  \E p, q \in Servers :
    /\ req[p].method = "PUT" /\ req[p].at = "s.UpdatePost76"
    /\ req[q].method = "PUT" /\ req[q].at = "s.UpdatePost77"
    /\ pc[q] = "idle" /\ res[q].op = "Update" /\ res[q].err = Nil
    /\ req[p].id = req[q].id
    /\ req[p].body # req[q].body
    /\ StoreValue[req[q].id] = req[q].post[1]

\* C30: an Update of the store made by PostService.UpdatePost for an id that
\* is no key (DeletePost completed after the GetByID) returns ErrPostNotFound
\* and leaves the id absent, UpdatePost then returns ErrPostNotFound, no step
\* of UpdatePost or DeletePost adds a key, and an id whose DeletePost has
\* succeeded is absent.
UpdateNeverResurrects ==
  /\ [](\A p \in Procs :
          (req[p].method = "DELETE" /\ req[p].at = "idle" /\ req[p].err = Nil) =>
            req[p].id \notin DOMAIN posts)
  /\ [][\A p \in Procs :
          /\ (/\ req[p].method = "PUT" /\ Returns(p, "Update")
              /\ req[p].id \notin DOMAIN posts) =>
               (res'[p].err = ErrPostNotFound /\ req[p].id \notin DOMAIN posts')
          /\ (/\ req[p].at = "s.UpdatePost77" /\ req'[p].at # "s.UpdatePost77"
              /\ res[p].err = ErrPostNotFound) =>
               req'[p].err = ErrPostNotFound
          /\ (/\ req[p].method \in {"PUT", "DELETE"}
              /\ req'[p] # req[p] \/ pc'[p] # pc[p]) =>
               DOMAIN posts' \subseteq DOMAIN posts]_vars

\* The Update of an UpdatePost whose GetByID had found the post has returned
\* ErrPostNotFound, after a DeletePost of the same id succeeded, and the id is
\* absent.
UpdateLostToDelete ==
  \E p, q \in Servers :
    /\ req[p].method = "PUT" /\ req[p].at = "s.UpdatePost77"
    /\ pc[p] = "idle" /\ res[p].op = "Update" /\ res[p].err = ErrPostNotFound
    /\ req[p].post # << >>
    /\ req[q].method = "DELETE" /\ req[q].at = "idle" /\ req[q].err = Nil
    /\ req[q].id = req[p].id
    /\ req[p].id \notin DOMAIN posts

====
